---- MODULE Spec2Model ----
(***************************************************************************)
(* Model of labgrid's YAML configuration resolution                        *)
(* (labgrid/util/yaml.py): the loader with its !include, !template,        *)
(* !optional_template and python/tuple constructors, data_merge,           *)
(* resolve_includes and resolve_templates, and the target-option accessors *)
(* of the Config facade that the tests drive.                              *)
(*                                                                         *)
(* Python values are tagged records [t, v]:                                *)
(*   none/int/str       scalars (a str is a sequence of characters)        *)
(*   list, tuple        v is the sequence of items                         *)
(*   map                v is the sequence of <<key, value>> pairs, in      *)
(*                      insertion order (an OrderedDict)                   *)
(*   tmpl, opt          string.Template / OptionalTemplate, v its tokens   *)
(*   include            an !include node of a document not yet constructed *)
(*   error              a raised exception, v = <<type, message parts>>    *)
(***************************************************************************)
EXTENDS Integers, Sequences, FiniteSets, TLC

VARIABLES
    pc,             \* where the run stands
    fs,             \* the files next to the configuration file: name -> document
    root,           \* the document of the configuration file itself
    substitutions,  \* Loader.substitutions, the mapping for include paths
    mapping,        \* the mapping handed to the template substitution
    data,           \* Config.data, the tree being resolved
    err,            \* the exception that ended the run, None while there is none
    opened,         \* the files _construct_include has opened, in order
    base,           \* data_merge called on its own: the argument a
    override,       \*   the argument b
    merged,         \*   what the call returned or raised
    tmpl,           \* OptionalTemplate.substitute called on its own: self.tmpl
    ext_mappings,   \*   the local copy of the mapping
    out,            \*   what the call returned
    retries,        \*   the KeyErrors caught so far
    lastset,        \* the last set_target_option call: [target, option, value]
    got             \* the last get_target_option call: [target, option, res]

pipeline == <<fs, root, substitutions, opened>>
merging == <<base, override, merged>>
substituting == <<tmpl, ext_mappings, out, retries>>
facade == <<lastset, got>>

vars == <<pc, mapping, data, err, pipeline, merging, substituting, facade>>

---------------------------------------------------------------------------
(* Values *)

None == [t |-> "none", v |-> <<>>]
Integer(n) == [t |-> "int", v |-> n]
Float(whole, frac) == [t |-> "float", v |-> <<whole, frac>>]
Bool(b) == [t |-> "bool", v |-> b]
Str(s) == [t |-> "str", v |-> s]
List(items) == [t |-> "list", v |-> items]
Tuple(items) == [t |-> "tuple", v |-> items]
Map(entries) == [t |-> "map", v |-> entries]
Template(toks) == [t |-> "tmpl", v |-> toks]
OptionalTemplate(toks) == [t |-> "opt", v |-> toks]
Include(toks) == [t |-> "include", v |-> toks]
Error(type, msg) == [t |-> "error", v |-> <<type, msg>>]

IsError(x) == x.t = "error"

(* Template tokens: literal text, a $name / ${name} placeholder, or a bare *)
(* "$" that the placeholder grammar rejects.                               *)
Lit(s) == [k |-> "lit", x |-> s]
Var(n) == [k |-> "var", x |-> <<n>>]
Bad == [k |-> "bad", x |-> <<"$">>]

(* Ordered-mapping helpers (dict / OrderedDict operations). *)
Keys(m) == {m.v[i][1] : i \in 1..Len(m.v)}
HasKey(m, key) == key \in Keys(m)
IndexOf(m, key) == CHOOSE i \in 1..Len(m.v) : m.v[i][1] = key
Get(m, key) == m.v[IndexOf(m, key)][2]
Put(m, key, val) ==
    IF HasKey(m, key)
    THEN Map([m.v EXCEPT ![IndexOf(m, key)] = <<key, val>>])
    ELSE Map(Append(m.v, <<key, val>>))
Pop(m, key) == Map(SelectSeq(m.v, LAMBDA e : e[1] # key))

---------------------------------------------------------------------------
(* data_merge(a, b): merges b into a and returns the merged a. *)

RECURSIVE data_merge(_, _)
RECURSIVE MergeKeys(_, _, _)

(* The loop "for key in b" of the mapping case, from entry i of b on. *)
MergeKeys(x, y, i) ==
    IF i > Len(y.v) THEN x
    ELSE LET key == y.v[i][1]
             val == y.v[i][2]
         IN IF HasKey(x, key)
            THEN LET m == data_merge(Get(x, key), val)
                 IN IF IsError(m) THEN m
                    ELSE MergeKeys(Put(x, key, m), y, i + 1)
            ELSE MergeKeys(Put(x, key, val), y, i + 1)

(* data_merge with the final branch taken for the scalars: every other    *)
(* base is replaced by the override.                                       *)
data_merge_replacing(x, y) ==
    IF x.t = "map" /\ y.t = "map" THEN MergeKeys(x, y, 1)
    ELSE IF x.t = "list"
         THEN IF y.t = "list" THEN List(x.v \o y.v)
              ELSE List(Append(x.v, y))
    ELSE y

(* bool is a subclass of int, so a boolean base is a scalar too. *)
data_merge(x, y) ==
    IF x.t = "map" /\ y.t = "map" THEN MergeKeys(x, y, 1)
    ELSE IF x.t = "list"
         THEN IF y.t = "list" THEN List(x.v \o y.v)
              ELSE List(Append(x.v, y))
    ELSE IF x.t \in {"none", "str", "float", "int", "bool"} THEN y
    ELSE Error("InvalidConfigError", <<"Datatype not supported", y.t, x.t>>)

---------------------------------------------------------------------------
(* string.Template.substitute as the module uses it: the placeholders are  *)
(* replaced from left to right; a name the mapping lacks raises            *)
(* KeyError(name), a bare "$" raises ValueError.  A mapping is a function  *)
(* from variable names to strings.                                         *)

RECURSIVE SubstituteFrom(_, _, _, _)
SubstituteFrom(toks, m, i, acc) ==
    IF i > Len(toks) THEN Str(acc)
    ELSE LET tok == toks[i]
         IN IF tok.k = "lit" THEN SubstituteFrom(toks, m, i + 1, acc \o tok.x)
            ELSE IF tok.k = "var"
                 THEN IF tok.x[1] \in DOMAIN m
                      THEN SubstituteFrom(toks, m, i + 1, acc \o m[tok.x[1]])
                      ELSE Error("KeyError", tok.x)
            ELSE Error("ValueError", <<"Invalid placeholder in string">>)

Substitute(toks, m) == SubstituteFrom(toks, m, 1, <<>>)

IsKeyError(r) == IsError(r) /\ r.v[1] = "KeyError"
IsValueError(r) == IsError(r) /\ r.v[1] = "ValueError"

(* A slip in the retry: the variable bound to its own name instead of the  *)
(* empty string.                                                           *)
ExtendMappingWithName(ext, r) == (r.v[2][1] :> r.v[2]) @@ ext

(* Another slip: the retry made with the mapping as it was. *)
ExtendMappingUnbound(ext, r) == ext

(* One pass of the "while True" loop of OptionalTemplate.substitute: the   *)
(* mapping to retry with after a KeyError.                                 *)
ExtendMapping(ext, r) == (r.v[2][1] :> <<>>) @@ ext

(* OptionalTemplate.substitute(mappings), the whole call. *)
RECURSIVE OptionalSubstituteLoop(_, _)
OptionalSubstituteLoop(toks, ext) ==
    LET r == Substitute(toks, ext)
    IN IF IsKeyError(r) THEN OptionalSubstituteLoop(toks, ExtendMapping(ext, r))
       ELSE r

OptionalSubstitute(toks, m) == OptionalSubstituteLoop(toks, m)

---------------------------------------------------------------------------
(* resolve_templates(data, mapping): the tree with every Template and      *)
(* OptionalTemplate that the walk visits substituted, or the exception     *)
(* that ended the walk.                                                    *)

RECURSIVE resolve_templates(_, _)
RECURSIVE ResolveItems(_, _, _)

(* The body of the loop "for k, val in items" for one value. *)
ResolveVal(val, m) ==
    IF val.t = "opt" THEN OptionalSubstitute(val.v, m)
    ELSE IF val.t = "tmpl"
         THEN LET r == Substitute(val.v, m)
              IN IF IsValueError(r)
                 THEN Error("ValueError", <<"Invalid template string", val.v>>)
                 ELSE r
    ELSE IF val.t \in {"list", "map"} THEN resolve_templates(val, m)
    ELSE val

(* The loop over the items of a list (entries are values) or of a mapping  *)
(* (entries are <<key, value>> pairs), from entry i on.                    *)
ResolveItems(d, m, i) ==
    IF i > Len(d.v) THEN d
    ELSE LET val == IF d.t = "map" THEN d.v[i][2] ELSE d.v[i]
             r == ResolveVal(val, m)
         IN IF IsError(r) THEN r
            ELSE ResolveItems(
                   [d EXCEPT !.v[i] = IF d.t = "map" THEN <<d.v[i][1], r>> ELSE r],
                   m, i + 1)

resolve_templates(d, m) ==
    IF d.t \in {"list", "map"} THEN ResolveItems(d, m, 1)
    ELSE Error("TypeError", <<"Expected list or dict", d.t>>)

---------------------------------------------------------------------------
(* resolve_includes(data) *)

RECURSIVE resolve_includes(_)
RECURSIVE MergeIncludes(_, _, _)

(* What "for l in val" iterates over: the items of a list or tuple, the    *)
(* keys of a mapping, the characters of a string; anything else is not     *)
(* iterable.                                                               *)
IterItems(val) ==
    IF val.t \in {"list", "tuple"} THEN val.v
    ELSE IF val.t = "map" THEN [i \in 1..Len(val.v) |-> Str(<<val.v[i][1]>>)]
    ELSE IF val.t = "str" THEN [i \in 1..Len(val.v) |-> Str(<<val.v[i]>>)]
    ELSE <<Error("TypeError", <<"object is not iterable", val.t>>)>>

(* The inner loop: each fragment is resolved, then merged as the base      *)
(* under the data accumulated so far.                                      *)
MergeIncludes(items, acc, i) ==
    IF i > Len(items) THEN acc
    ELSE IF IsError(items[i]) THEN items[i]
    ELSE LET l == resolve_includes(items[i])
         IN IF IsError(l) THEN l
            ELSE LET m == data_merge(l, acc)
                 IN IF IsError(m) THEN m
                    ELSE MergeIncludes(items, m, i + 1)

(* The iterator over data.items() is the one of the OrderedDict the        *)
(* loader built; data.pop(k) inside the loop mutates that mapping, and the *)
(* iterator's next step raises unless it had already reached the end, that *)
(* is unless "includes" was the last key.                                  *)
IteratorSurvivesPop(d) == IndexOf(d, "includes") = Len(d.v)

resolve_includes(d) ==
    IF d.t = "list" THEN d
    ELSE IF d.t = "map"
         THEN IF ~HasKey(d, "includes") THEN d
              ELSE LET r == MergeIncludes(IterItems(Get(d, "includes")),
                                          Pop(d, "includes"), 1)
                   IN IF IsError(r) THEN r
                      ELSE IF IteratorSurvivesPop(d) THEN r
                      ELSE Error("RuntimeError",
                                 <<"OrderedDict mutated during iteration">>)
    ELSE Error("TypeError", <<"Expected list or dict", d.t>>)

---------------------------------------------------------------------------
(* The loader.  A document is a value that may hold Include nodes; fs maps *)
(* a file name (a string) to the document the file holds.  Constructing a  *)
(* document constructs every !include node in it: PyYAML constructs the    *)
(* children of mappings and of python/tuple nodes at once and defers the   *)
(* items of a plain sequence until the enclosing round is done, so the     *)
(* nodes are constructed by increasing depth of sequence nesting, and in   *)
(* document order within one depth.                                        *)

RECURSIVE Directives(_, _)
RECURSIVE DirectivesOf(_, _, _)

(* The !include nodes below node, in document order, with the number of    *)
(* sequences each is nested in.                                            *)
Directives(node, depth) ==
    IF node.t = "include" THEN <<[d |-> depth, p |-> node.v]>>
    ELSE IF node.t \in {"map", "tuple", "list"} THEN DirectivesOf(node, depth, 1)
    ELSE <<>>

DirectivesOf(node, depth, i) ==
    IF i > Len(node.v) THEN <<>>
    ELSE LET child == IF node.t = "map" THEN node.v[i][2] ELSE node.v[i]
             below == IF node.t = "list" THEN depth + 1 ELSE depth
         IN Directives(child, below) \o DirectivesOf(node, depth, i + 1)

RECURSIVE ByDepth(_, _, _)
ByDepth(ds, depth, n) ==
    IF n = 0 THEN <<>>
    ELSE LET here == SelectSeq(ds, LAMBDA x : x.d = depth)
         IN here \o ByDepth(ds, depth + 1, n - Len(here))

ConstructionOrder(node) ==
    LET ds == Directives(node, 0) IN ByDepth(ds, 0, Len(ds))

IsYaml(name) == Len(name) > 0 /\ name[Len(name)] \in {".yaml", ".yml"}

RECURSIVE _construct_include(_, _, _)
RECURSIVE ConstructAll(_, _, _, _, _)
RECURSIVE Replace(_, _, _)

(* yaml.load of a document: [res |-> the constructed tree or the exception *)
(* raised, log |-> the files opened on the way, in order].                 *)
Construct(files, subst, node) ==
    LET r == ConstructAll(files, subst, ConstructionOrder(node), 1, <<>>)
    IN IF IsError(r.res) THEN r
       ELSE [res |-> Replace(files, subst, node), log |-> r.log]

(* The directives of one document, constructed in order until one raises. *)
ConstructAll(files, subst, ds, i, log) ==
    IF i > Len(ds) THEN [res |-> None, log |-> log]
    ELSE LET r == _construct_include(files, subst, ds[i].p)
         IN IF IsError(r.res) THEN [res |-> r.res, log |-> log \o r.log]
            ELSE ConstructAll(files, subst, ds, i + 1, log \o r.log)

(* A slip in the path substitution: an unset variable replaced by the      *)
(* empty string instead of raising.                                        *)
_construct_include_lenient(files, subst, toks) ==
    LET f == OptionalSubstitute(toks, subst)
    IN IF IsError(f) THEN [res |-> f, log |-> <<>>]
       ELSE IF f.v \notin DOMAIN files
            THEN [res |-> Error("FileNotFoundError", <<f.v>>), log |-> <<>>]
       ELSE IF IsYaml(f.v)
            THEN LET r == Construct(files, subst, files[f.v])
                 IN [res |-> r.res, log |-> <<f.v>> \o r.log]
       ELSE [res |-> files[f.v], log |-> <<f.v>>]

(* _construct_include(loader, node) for the node with path template toks. *)
_construct_include(files, subst, toks) ==
    LET f == Substitute(toks, subst)
    IN IF IsKeyError(f)
       THEN [res |-> Error("InvalidConfigError", <<"Could not resolve key", f.v[2]>>),
             log |-> <<>>]
       ELSE IF IsError(f) THEN [res |-> f, log |-> <<>>]
       ELSE IF f.v \notin DOMAIN files
            THEN [res |-> Error("FileNotFoundError", <<f.v>>), log |-> <<>>]
       ELSE IF IsYaml(f.v)
            THEN LET r == Construct(files, subst, files[f.v])
                 IN [res |-> r.res, log |-> <<f.v>> \o r.log]
       ELSE [res |-> files[f.v], log |-> <<f.v>>]

(* The constructed tree: every !include node replaced by what its          *)
(* constructor returned.                                                   *)
Replace(files, subst, node) ==
    IF node.t = "include" THEN _construct_include(files, subst, node.v).res
    ELSE IF node.t = "map"
         THEN Map([i \in 1..Len(node.v) |->
                     <<node.v[i][1], Replace(files, subst, node.v[i][2])>>])
    ELSE IF node.t \in {"list", "tuple"}
         THEN [node EXCEPT !.v = [i \in 1..Len(node.v) |->
                                     Replace(files, subst, node.v[i])]]
    ELSE node

(* load(stream, substitutions) *)
load(files, subst, node) == Construct(files, subst, node)

---------------------------------------------------------------------------
(* The documents the configuration is loaded from.  The configuration file *)
(* and the two fragments A.yaml and B.yaml each hold a mapping with the    *)
(* scalar key "k" (a value that tells the three apart), a key "v" with a   *)
(* value of any shape, and possibly an "includes" list or an inline        *)
(* !include; "includes" is written before or after the other keys.         *)

EmptyMapping == [n \in {} |-> <<>>]

FileA == <<"A", ".yaml">>
FileB == <<"B", ".yaml">>

(* An include path, written literally or as ${LG_DIR}<file>. *)
Path(file, style) ==
    IF style = "var" THEN <<Var("LG_DIR"), Lit(file)>> ELSE <<Lit(file)>>

Absent == [t |-> "absent", v |-> <<>>]

(* Templates over the variables X (set in the value mapping) and Y (not    *)
(* set), and one with a bare "$".                                          *)
TemplateTexts ==
    { <<Lit(<<"a">>), Var("X")>>, <<Var("Y"), Lit(<<"a">>)>>, <<Bad>> }

Leaves(id) ==
    {Integer(id)} \cup {Template(x) : x \in TemplateTexts}
                  \cup {OptionalTemplate(x) : x \in TemplateTexts}

Nested(id) ==
    {Integer(id), Template(<<Var("Y"), Lit(<<"a">>)>>), Template(<<Lit(<<"a">>), Var("X")>>),
     OptionalTemplate(<<Bad>>)}

RootValues ==
    {Absent} \cup Leaves(1)
      \cup {List(<<x>>) : x \in Nested(1)}
      \cup {Tuple(<<x>>) : x \in Nested(1)}
      \cup {Map(<< <<"n", x>> >>) : x \in Nested(1)}

FragmentValues ==
    {Absent, Integer(2), List(<<Integer(2), Integer(2)>>), Tuple(<<Integer(2)>>),
     List(<<Template(<<Var("Y"), Lit(<<"a">>)>>)>>), Map(<< <<"n", Integer(2)>> >>)}

InnerValues == {Absent, List(<<Integer(3)>>)}

(* The entries of a document: "includes" first or last among its keys. *)
Entries(body, includes, pos) ==
    LET inc == IF includes = <<>> THEN <<>>
               ELSE << <<"includes", List(includes)>> >>
    IN IF pos = "first" THEN inc \o body ELSE body \o inc

Body(id, hasK, v, inline) ==
    (IF hasK THEN << <<"k", Integer(id)>> >> ELSE <<>>)
      \o (IF v = Absent THEN <<>> ELSE << <<"v", v>> >>)
      \o (IF inline = <<>> THEN <<>> ELSE << <<"i", inline[1]>> >>)

RootShapes == {"plain", "A", "AB", "inlineA", "inlineB"}
FragmentShapes == {"plain", "B"}
Positions == {"first", "last"}
Styles == {"lit", "var"}

DocB(v) == Map(Body(3, TRUE, v, <<>>))

DocA(v, shape, pos, styleB) ==
    Map(Entries(Body(2, TRUE, v, <<>>),
                IF shape = "B" THEN <<Include(Path(FileB, styleB))>> ELSE <<>>,
                pos))

DocRoot(hasK, v, shape, pos, styleA, styleB) ==
    LET incA == Include(Path(FileA, styleA))
        incB == Include(Path(FileB, styleB))
    IN Map(Entries(Body(1, hasK, v,
                        IF shape = "inlineA" THEN <<incA>>
                        ELSE IF shape = "inlineB" THEN <<incB>> ELSE <<>>),
                   IF shape = "A" THEN <<incA>>
                   ELSE IF shape = "AB" THEN <<incA, incB>> ELSE <<>>,
                   pos))

---------------------------------------------------------------------------
(* The parts of the state a run does not use. *)
NoPipeline ==
    fs = EmptyMapping /\ root = None /\ substitutions = EmptyMapping /\ opened = <<>>
NoMerging == base = None /\ override = None /\ merged = None
NoSubstituting == tmpl = <<>> /\ ext_mappings = EmptyMapping /\ out = None /\ retries = 0
NoFacade == lastset = None /\ got = None

(* Config(filename): load, then resolve_includes, then resolve_templates;  *)
(* an exception in any of them ends the construction.  At most one of the  *)
(* two fragments is named through ${LG_DIR}, and every path names a file   *)
(* that exists once its variables are set.                                 *)

Init ==
    /\ \E hasK \in BOOLEAN, rv \in RootValues, av \in FragmentValues,
          bv \in InnerValues, rs \in RootShapes, as \in FragmentShapes,
          rp \in Positions, ap \in Positions, sa \in Styles, sb \in Styles :
          /\ sa = "lit" \/ sb = "lit"
          /\ sa = "var" => rs \in {"A", "AB", "inlineA"}
          /\ sb = "var" => (rs \in {"AB", "inlineB"} \/ as = "B")
          /\ rp = "first" => rs \in {"A", "AB"}
          /\ ap = "first" => as = "B"
          /\ root = DocRoot(hasK, rv, rs, rp, sa, sb)
          /\ fs = (FileA :> DocA(av, as, ap, sb)) @@ (FileB :> DocB(bv))
          /\ substitutions \in
                IF sa = "var" \/ sb = "var"
                THEN {EmptyMapping, "LG_DIR" :> <<>>} ELSE {"LG_DIR" :> <<>>}
    /\ mapping = ("X" :> <<"x">>)
    /\ pc = "start"
    /\ data = None
    /\ err = None
    /\ opened = <<>>
    /\ NoMerging /\ NoSubstituting /\ NoFacade

Load ==
    /\ pc = "start"
    /\ LET r == load(fs, substitutions, root)
       IN /\ opened' = r.log
          /\ IF IsError(r.res)
             THEN /\ err' = r.res
                  /\ pc' = "load_failed"
                  /\ data' = data
             ELSE /\ data' = r.res
                  /\ pc' = "loaded"
                  /\ err' = err
    /\ UNCHANGED <<fs, root, substitutions, mapping, merging, substituting, facade>>

ResolveIncludes ==
    /\ pc = "loaded"
    /\ LET r == resolve_includes(data)
       IN IF IsError(r)
          THEN /\ err' = r
               /\ pc' = "includes_failed"
               /\ data' = data
          ELSE /\ data' = r
               /\ pc' = "included"
               /\ err' = err
    /\ UNCHANGED <<pipeline, mapping, merging, substituting, facade>>

ResolveTemplates ==
    /\ pc = "included"
    /\ LET r == resolve_templates(data, mapping)
       IN IF IsError(r)
          THEN /\ err' = r
               /\ pc' = "templates_failed"
               /\ data' = data
          ELSE /\ data' = r
               /\ pc' = "resolved"
               /\ err' = err
    /\ UNCHANGED <<pipeline, mapping, merging, substituting, facade>>

Next == Load \/ ResolveIncludes \/ ResolveTemplates

Spec == Init /\ [][Next]_vars

---------------------------------------------------------------------------
(* data_merge called on its own, on every pair of values up to a size. *)

MaxItems == 2

SeqsUpTo(S, n) == UNION {[1..len -> S] : len \in 0..n}

Scalars == {None, Integer(1), Str(<<"s">>), Float(1, 5), Bool(TRUE)}
ItemSequences == SeqsUpTo({Integer(1), Integer(2)}, MaxItems)
FlatValues ==
    Scalars \cup {List(x) : x \in ItemSequences} \cup {Tuple(x) : x \in ItemSequences}
            \cup {Template(<<Var("X")>>)}
MemberValues ==
    Scalars \cup {List(<<Integer(1)>>), Tuple(<<Integer(1)>>),
                  Map(<< <<"n", Integer(1)>> >>), Map(<< <<"n", Tuple(<<>>)>> >>)}
MergeValues ==
    FlatValues \cup {Map(<<>>)}
               \cup {Map(<< <<key, x>> >>) : key \in {"k", "j"}, x \in MemberValues}

InitMerge ==
    /\ base \in MergeValues
    /\ override \in MergeValues
    /\ merged = None
    /\ pc = "merge"
    /\ mapping = EmptyMapping /\ data = None /\ err = None
    /\ NoPipeline /\ NoSubstituting /\ NoFacade

DataMerge ==
    /\ pc = "merge"
    /\ merged' = data_merge(base, override)
    /\ pc' = "merged"
    /\ UNCHANGED <<base, override, mapping, data, err, pipeline, substituting, facade>>

NextMerge == DataMerge

SpecMerge == InitMerge /\ [][NextMerge]_vars

---------------------------------------------------------------------------
(* OptionalTemplate.substitute called on its own, one action for the copy  *)
(* of the mapping and one for each pass of the "while True" loop.          *)

MaxTokens == 3

Tokens == {Lit(<<"a">>), Var("X"), Var("Y"), Bad}
Variables == {"X", "Y"}
Mappings == UNION {[dom -> {<<"x">>, <<"y", "y">>}] : dom \in SUBSET Variables}

InitSubstitute ==
    /\ tmpl \in SeqsUpTo(Tokens, MaxTokens)
    /\ mapping \in Mappings
    /\ ext_mappings = EmptyMapping
    /\ out = None
    /\ retries = 0
    /\ pc = "substitute"
    /\ data = None /\ err = None
    /\ NoPipeline /\ NoMerging /\ NoFacade

CopyMapping ==
    /\ pc = "substitute"
    /\ ext_mappings' = mapping
    /\ pc' = "loop"
    /\ UNCHANGED <<tmpl, out, retries, mapping, data, err, pipeline, merging, facade>>

TrySubstitute ==
    /\ pc = "loop"
    /\ LET r == Substitute(tmpl, ext_mappings)
       IN IF IsKeyError(r)
          THEN /\ ext_mappings' = ExtendMapping(ext_mappings, r)
               /\ retries' = retries + 1
               /\ UNCHANGED <<pc, out, err>>
          ELSE IF IsError(r)
          THEN /\ err' = r
               /\ pc' = "raised"
               /\ UNCHANGED <<ext_mappings, retries, out>>
          ELSE /\ out' = r
               /\ pc' = "returned"
               /\ UNCHANGED <<ext_mappings, retries, err>>
    /\ UNCHANGED <<tmpl, mapping, data, pipeline, merging, facade>>

NextSubstitute == CopyMapping \/ TrySubstitute

SpecSubstitute == InitSubstitute /\ [][NextSubstitute]_vars

(* The call runs in the caller's thread and nothing suspends it between    *)
(* two passes of the loop: a pass that can be taken is taken.              *)
SpecSubstituteFair ==
    InitSubstitute /\ [][NextSubstitute]_vars /\ WF_vars(NextSubstitute)

---------------------------------------------------------------------------
(* The target options of the Config facade. *)

Targets == {"main", "other"}
Options == {"spam", "obj"}
OptionValues == {Str(<<"eggs">>), List(<<Integer(1)>>), None}

Section(d, key) == IF d.t = "map" /\ HasKey(d, key) THEN Get(d, key) ELSE Absent

get_target_option(d, tgt, opt) ==
    LET t == Section(Section(d, "targets"), tgt)
        o == Section(Section(t, "options"), opt)
    IN IF t = Absent THEN Error("KeyError", <<"No target", tgt>>)
       ELSE IF o = Absent THEN Error("KeyError", <<"No option", opt>>)
       ELSE o

MapOrEmpty(x) == IF x.t = "map" THEN x ELSE Map(<<>>)

(* A slip in the setter: the option stored only where the target already   *)
(* has an "options" mapping.                                               *)
set_target_option_existing(d, tgt, opt, val) ==
    LET targets == Section(d, "targets")
        t == Section(targets, tgt)
        options == Section(t, "options")
    IN IF options.t = "map"
       THEN Put(d, "targets",
                Put(targets, tgt, Put(t, "options", Put(options, opt, val))))
       ELSE d

set_target_option(d, tgt, opt, val) ==
    LET targets == MapOrEmpty(Section(d, "targets"))
        t == MapOrEmpty(Section(targets, tgt))
        options == MapOrEmpty(Section(t, "options"))
    IN Put(d, "targets",
           Put(targets, tgt, Put(t, "options", Put(options, opt, val))))

(* The resolved configurations the accessors start from: a target with no  *)
(* body (as "main:" alone gives), with an empty body, or with options.     *)
TargetBodies ==
    {None, Map(<<>>), Map(<< <<"options", Map(<<>>)>> >>),
     Map(<< <<"options", Map(<< <<"spam", Integer(1)>> >>)>> >>)}

InitFacade ==
    /\ \E body \in TargetBodies :
          data = Map(<< <<"targets", Map(<< <<"main", body>> >>)>> >>)
    /\ lastset = None
    /\ got = None
    /\ pc = "ready"
    /\ mapping = EmptyMapping /\ err = None
    /\ NoPipeline /\ NoMerging /\ NoSubstituting

SetTargetOption ==
    /\ pc = "ready"
    /\ \E tgt \in Targets, opt \in Options, val \in OptionValues :
          /\ data' = set_target_option(data, tgt, opt, val)
          /\ lastset' = [target |-> tgt, option |-> opt, value |-> val]
    /\ got' = None
    /\ UNCHANGED <<pc, mapping, err, pipeline, merging, substituting>>

GetTargetOption ==
    /\ pc = "ready"
    /\ \E tgt \in Targets, opt \in Options :
          got' = [target |-> tgt, option |-> opt,
                  res |-> get_target_option(data, tgt, opt)]
    /\ UNCHANGED <<pc, data, lastset, mapping, err, pipeline, merging, substituting>>

NextFacade == SetTargetOption \/ GetTargetOption

SpecFacade == InitFacade /\ [][NextFacade]_vars

---------------------------------------------------------------------------
(* Properties.  What the passes were given is recomputed from the files:   *)
(* Loaded is the tree load returned, Included the one resolve_includes     *)
(* returned.                                                               *)

Loaded == load(fs, substitutions, root).res
Included == IF IsError(Loaded) THEN Loaded ELSE resolve_includes(Loaded)

IncludesRan == pc \in {"included", "includes_failed"}
TemplatesRan == pc \in {"resolved", "templates_failed"}

(* The fragments the "includes" key of a loaded mapping lists. *)
Fragments(d) ==
    IF d.t = "map" /\ HasKey(d, "includes") /\ Get(d, "includes").t = "list"
    THEN Get(d, "includes").v ELSE <<>>

Plain(d) == d.t = "map" /\ ~HasKey(d, "includes")

(* merge(base, override) of the specification, an error staying an error. *)
MergeUnder(x, y) == IF IsError(y) THEN y ELSE data_merge(x, y)

RECURSIVE Nodes(_)
(* Every value of a tree, at any depth. *)
Nodes(x) ==
    {x} \cup (IF x.t \in {"list", "tuple"}
              THEN UNION {Nodes(x.v[i]) : i \in 1..Len(x.v)}
              ELSE IF x.t = "map"
              THEN UNION {Nodes(x.v[i][2]) : i \in 1..Len(x.v)}
              ELSE {})

RECURSIVE WalkedNodes(_)
(* Every value of a tree below mappings and lists only. *)
WalkedNodes(x) ==
    {x} \cup (IF x.t = "list"
              THEN UNION {WalkedNodes(x.v[i]) : i \in 1..Len(x.v)}
              ELSE IF x.t = "map"
              THEN UNION {WalkedNodes(x.v[i][2]) : i \in 1..Len(x.v)}
              ELSE {})

Referenced(toks) == {toks[i].x[1] : i \in {j \in 1..Len(toks) : toks[j].k = "var"}}
Malformed(toks) == \E i \in 1..Len(toks) : toks[i].k = "bad"
MissingIn(toks, m) == Referenced(toks) \ DOMAIN m

(* C1: for a document D whose "includes" key, wherever it stands among D's  *)
(* keys, lists the fragments [A, B], resolve_includes returns               *)
(* merge(B, merge(A, D minus "includes")): the scalar key k resolves to D's *)
(* value when D defines it and to A's value when only A and B define it.    *)
C1_MergePrecedence ==
    LET frags == Fragments(Loaded)
        D == Pop(Loaded, "includes")
        expected == MergeUnder(frags[2], MergeUnder(frags[1], D))
    IN (/\ IncludesRan
        /\ Len(frags) = 2
        /\ Plain(frags[1]) /\ Plain(frags[2]))
       => IF IsError(expected)
          THEN pc = "includes_failed" /\ err = expected
          ELSE /\ pc = "included"
               /\ data = expected
               /\ HasKey(D, "k") => Get(data, "k") = Get(D, "k")
               /\ (~HasKey(D, "k") /\ HasKey(frags[1], "k") /\ HasKey(frags[2], "k"))
                     => Get(data, "k") = Get(frags[1], "k")

(* The same statement for the documents that hold "includes" as their last *)
(* key: what the code does do.                                             *)
MergePrecedenceWhenLast ==
    LET frags == Fragments(Loaded)
        D == Pop(Loaded, "includes")
        expected == MergeUnder(frags[2], MergeUnder(frags[1], D))
    IN (/\ IncludesRan
        /\ Len(frags) = 2
        /\ Plain(frags[1]) /\ Plain(frags[2])
        /\ IteratorSurvivesPop(Loaded))
       => IF IsError(expected)
          THEN pc = "includes_failed" /\ err = expected
          ELSE /\ pc = "included"
               /\ data = expected
               /\ HasKey(D, "k") => Get(data, "k") = Get(D, "k")
               /\ (~HasKey(D, "k") /\ HasKey(frags[1], "k") /\ HasKey(frags[2], "k"))
                     => Get(data, "k") = Get(frags[1], "k")

(* C2: for a root document that includes A, where A includes B, the        *)
(* include pass returns a tree with the keys of B, of A and of the root,    *)
(* without an "includes" key, and with the scalar key k taken from the root *)
(* before A and from A before B (whenever the values under the other keys   *)
(* can be merged at all).                                                   *)
C2_NestedIncludes ==
    LET frags == Fragments(Loaded)
        A == frags[1]
        inner == Fragments(A)
        B == inner[1]
        D == Pop(Loaded, "includes")
        expected == MergeUnder(MergeUnder(B, Pop(A, "includes")), D)
    IN (/\ IncludesRan
        /\ Len(frags) = 1
        /\ Len(inner) = 1
        /\ Plain(B)
        /\ ~IsError(expected))
       => /\ pc = "included"
          /\ Keys(data) = (Keys(D) \cup Keys(A) \cup Keys(B)) \ {"includes"}
          /\ Get(data, "k") = IF HasKey(D, "k") THEN Get(D, "k") ELSE Get(A, "k")
          /\ (HasKey(B, "v") /\ ~HasKey(A, "v") /\ ~HasKey(D, "v"))
                => Get(data, "v") = Get(B, "v")

(* C3: a sequence-valued key that the included fragment A and the document *)
(* D both define resolves to A's items followed by D's items.              *)
C3_ListConcatenation ==
    LET frags == Fragments(Loaded)
        A == frags[1]
        D == Pop(Loaded, "includes")
    IN (/\ IncludesRan
        /\ Len(frags) = 1
        /\ Plain(A)
        /\ HasKey(A, "v") /\ HasKey(D, "v")
        /\ Get(A, "v").t = "list" /\ Get(D, "v").t = "list")
       => /\ pc = "included"
          /\ Get(data, "v") = List(Get(A, "v").v \o Get(D, "v").v)

(* The part of C3 about data_merge itself: a list base followed by the     *)
(* items of a list override, or by any other override as one more item.    *)
ListMergeAppends ==
    (pc = "merged" /\ base.t = "list")
       => merged = IF override.t = "list" THEN List(base.v \o override.v)
                   ELSE List(base.v \o <<override>>)

(* C2 and C3 for the documents that hold "includes" as their last key. *)
NestedIncludesWhenLast ==
    LET frags == Fragments(Loaded)
        A == frags[1]
        inner == Fragments(A)
        B == inner[1]
        D == Pop(Loaded, "includes")
        expected == MergeUnder(MergeUnder(B, Pop(A, "includes")), D)
    IN (/\ IncludesRan
        /\ Len(frags) = 1
        /\ Len(inner) = 1
        /\ Plain(B)
        /\ ~IsError(expected)
        /\ IteratorSurvivesPop(Loaded) /\ IteratorSurvivesPop(A))
       => /\ pc = "included"
          /\ data = expected
          /\ Keys(data) = (Keys(D) \cup Keys(A) \cup Keys(B)) \ {"includes"}
          /\ Get(data, "k") = IF HasKey(D, "k") THEN Get(D, "k") ELSE Get(A, "k")
          /\ (HasKey(B, "v") /\ ~HasKey(A, "v") /\ ~HasKey(D, "v"))
                => Get(data, "v") = Get(B, "v")

ListConcatenationWhenLast ==
    LET frags == Fragments(Loaded)
        A == frags[1]
        D == Pop(Loaded, "includes")
    IN (/\ IncludesRan
        /\ Len(frags) = 1
        /\ Plain(A)
        /\ HasKey(A, "v") /\ HasKey(D, "v")
        /\ Get(A, "v").t = "list" /\ Get(D, "v").t = "list"
        /\ IteratorSurvivesPop(Loaded))
       => /\ pc = "included"
          /\ Get(data, "v") = List(Get(A, "v").v \o Get(D, "v").v)

(* C4: after set_target_option(target, option, value) an immediately       *)
(* following get_target_option(target, option) returns that value, also    *)
(* for a target that had no options before; the set creates the "options"  *)
(* mapping when it is absent.                                              *)
C4_AccessorRoundTrip ==
    /\ lastset = None =>
          \A opt \in Options :
             Section(Section(Section(Section(data, "targets"), "main"), "options"), opt) = Absent
                => get_target_option(data, "main", opt) = Error("KeyError", <<"No option", opt>>)
    /\ lastset # None =>
          /\ Section(Section(Section(data, "targets"), lastset.target), "options").t = "map"
          /\ get_target_option(data, lastset.target, lastset.option) = lastset.value
    /\ (/\ lastset # None /\ got # None
        /\ got.target = lastset.target /\ got.option = lastset.option)
          => got.res = lastset.value

(* A get that returned the value just set for a target the configuration   *)
(* did not give any options. *)
C4_Witness ==
    /\ lastset # None /\ got # None
    /\ got.target = "main" /\ got.option = "obj"
    /\ lastset.target = "main" /\ lastset.option = "obj"
    /\ got.res = List(<<Integer(1)>>)
    /\ Keys(Get(Get(Get(data, "targets"), "main"), "options")) = {"obj"}

(* C5: if a strict template anywhere in the tree references a variable the *)
(* value mapping lacks (and no template of the tree is malformed), the     *)
(* template pass fails with the KeyError naming such a variable and        *)
(* returns no tree.                                                        *)
C5_StrictTemplateFails ==
    LET all == Nodes(Included)
        missing == {n \in all : n.t = "tmpl" /\ MissingIn(n.v, mapping) # {}}
        malformed == {n \in all : n.t \in {"tmpl", "opt"} /\ Malformed(n.v)}
    IN (TemplatesRan /\ missing # {} /\ malformed = {})
       => /\ pc = "templates_failed"
          /\ \E n \in missing : \E name \in MissingIn(n.v, mapping) :
                err = Error("KeyError", <<name>>)

(* The same for the strict templates below mappings and lists only. *)
StrictTemplateFailsWhenWalked ==
    LET all == WalkedNodes(Included)
        missing == {n \in all : n.t = "tmpl" /\ MissingIn(n.v, mapping) # {}}
        malformed == {n \in all : n.t \in {"tmpl", "opt"} /\ Malformed(n.v)}
    IN (TemplatesRan /\ missing # {} /\ malformed = {})
       => /\ pc = "templates_failed"
          /\ data = Included
          /\ \E n \in missing : \E name \in MissingIn(n.v, mapping) :
                err = Error("KeyError", <<name>>)

(* C6: a malformed template that the walk visits, strict or optional,      *)
(* makes the template pass fail with "Invalid template string <template>"  *)
(* (when no strict template of the tree lacks a variable).                 *)
C6_MalformedTemplateFails ==
    LET all == WalkedNodes(Included)
        bad == {n \in all : n.t \in {"tmpl", "opt"} /\ Malformed(n.v)}
        missing == {n \in all : n.t = "tmpl" /\ MissingIn(n.v, mapping) # {}}
    IN (TemplatesRan /\ bad # {} /\ missing = {})
       => /\ pc = "templates_failed"
          /\ \E n \in bad : err = Error("ValueError", <<"Invalid template string", n.v>>)

(* What holds of both kinds: the pass fails with a ValueError, which       *)
(* carries the template text when the template is a strict one.            *)
MalformedTemplateRaises ==
    LET all == WalkedNodes(Included)
        bad == {n \in all : n.t \in {"tmpl", "opt"} /\ Malformed(n.v)}
        missing == {n \in all : n.t = "tmpl" /\ MissingIn(n.v, mapping) # {}}
    IN (TemplatesRan /\ bad # {} /\ missing = {})
       => /\ pc = "templates_failed"
          /\ IsValueError(err)
          /\ (\A n \in bad : n.t = "tmpl")
                => \E n \in bad : err = Error("ValueError", <<"Invalid template string", n.v>>)

(* The mapping extended with the empty string for every variable the       *)
(* template references and the mapping lacks.                              *)
Extended(m, toks) ==
    [n \in DOMAIN m \cup Referenced(toks) |-> IF n \in DOMAIN m THEN m[n] ELSE <<>>]

RECURSIVE Render(_, _, _)
(* The text of a well-formed template with the variables of m replaced by  *)
(* their values and every other variable by nothing.                       *)
Render(toks, m, i) ==
    IF i > Len(toks) THEN <<>>
    ELSE (IF toks[i].k = "lit" THEN toks[i].x
          ELSE IF toks[i].x[1] \in DOMAIN m THEN m[toks[i].x[1]] ELSE <<>>)
         \o Render(toks, m, i + 1)

(* C7: for a well-formed template OptionalTemplate.substitute never fails  *)
(* and returns what strict substitution returns against the mapping        *)
(* extended with the empty string for each referenced variable it lacks.   *)
C7_OptionalSubstitution ==
    /\ pc = "raised" => (Malformed(tmpl) /\ IsValueError(err))
    /\ pc = "returned" =>
          /\ ~Malformed(tmpl)
          /\ out = Substitute(tmpl, Extended(mapping, tmpl))
          /\ out = Str(Render(tmpl, mapping, 1))

(* A call that returned after a retry, for a template that also references *)
(* a variable the mapping has.                                             *)
C7_Witness ==
    /\ pc = "returned"
    /\ retries >= 1
    /\ Referenced(tmpl) \cap DOMAIN mapping # {}
    /\ MissingIn(tmpl, mapping) # {}

Range(f) == {f[i] : i \in DOMAIN f}

RECURSIVE ReachedPaths(_)
(* The include paths of a document and of the documents its resolvable     *)
(* directives load.                                                        *)
ReachedPaths(node) ==
    LET here == {d.p : d \in Range(Directives(node, 0))}
        names == {Substitute(p, substitutions).v :
                    p \in {q \in here : ~IsError(Substitute(q, substitutions))}}
    IN here \cup UNION {ReachedPaths(fs[f]) : f \in {g \in names \cap DOMAIN fs : IsYaml(g)}}

Unresolvable == {p \in ReachedPaths(root) : MissingIn(p, substitutions) # {}}

LiteralText(toks) == Render(toks, EmptyMapping, 1)

(* C8: if the path of an include directive of the documents being loaded   *)
(* references a variable the path substitutions lack, load fails with      *)
(* InvalidConfigError "Could not resolve key <name>", yields no tree, and  *)
(* has opened no file for that directive.                                  *)
C8_UnresolvedIncludePath ==
    (pc # "start" /\ Unresolvable # {})
       => /\ pc = "load_failed"
          /\ data = None
          /\ \E p \in Unresolvable : \E name \in MissingIn(p, substitutions) :
                err = Error("InvalidConfigError", <<"Could not resolve key", <<name>>>>)
          /\ \A p \in Unresolvable : LiteralText(p) \notin Range(opened)

(* A load that failed on the second entry of an "includes" list after the  *)
(* first entry was opened. *)
C8_Witness ==
    /\ pc = "load_failed"
    /\ Unresolvable # {}
    /\ opened = <<FileA>>
    /\ Len(Fragments(root)) = 2

(* C9: data_merge with a tuple as its base returns the override. *)
C9_TupleBaseIsScalar ==
    (pc = "merged" /\ base.t = "tuple") => merged = override

(* What the code does with a tuple base. *)
TupleBaseRaises ==
    (pc = "merged" /\ base.t = "tuple")
       => merged = Error("InvalidConfigError",
                         <<"Datatype not supported", override.t, "tuple">>)

(* C10: after the include pass and the template pass no Template,          *)
(* OptionalTemplate or !include node is left anywhere in the tree.         *)
C10_NoPlaceholders ==
    pc = "resolved" => \A n \in Nodes(data) : n.t \notin {"tmpl", "opt", "include"}

(* The same below mappings and lists only. *)
NoPlaceholdersWhenWalked ==
    pc = "resolved" => \A n \in WalkedNodes(data) : n.t \notin {"tmpl", "opt", "include"}

(* C11: after resolve_includes has returned, no mapping at any depth of    *)
(* the returned tree carries an "includes" key; a mapping under another    *)
(* key, and the tree an inline !include was replaced by, have had theirs   *)
(* merged in as at the root.                                               *)
C11_NoIncludesKeyAtAnyDepth ==
    pc = "included"
       => \A n \in Nodes(data) :
             n.t = "map" => ~HasKey(n, "includes")

(* What the code does: only the mapping it is given loses the key. *)
IncludesKeyGoneAtRoot ==
    pc = "included" => ~HasKey(data, "includes")

(* A mapping below the root is returned as load built it. *)
NestedMappingsUntouched ==
    (pc = "included" /\ Plain(Loaded) /\ HasKey(Loaded, "i"))
       => Get(data, "i") = Get(Loaded, "i")

---------------------------------------------------------------------------
(* The three rules of data_merge, as a test on the two operands. *)
Primitive(x) == x.t \in {"none", "str", "float", "int", "bool"}
Covered(x, y) == (x.t = "map" /\ y.t = "map") \/ x.t = "list" \/ Primitive(x)

Unsupported(x, y) ==
    Error("InvalidConfigError", <<"Datatype not supported", y.t, x.t>>)

RECURSIVE Mergeable(_, _)
(* Covered, and for two mappings covered under every key they share, at    *)
(* any depth.                                                              *)
Mergeable(x, y) ==
    /\ Covered(x, y)
    /\ (x.t = "map" /\ y.t = "map")
          => \A key \in Keys(x) \cap Keys(y) : Mergeable(Get(x, key), Get(y, key))

RECURSIVE Clashes(_, _)
(* The operand pairs, at any depth, that no rule covers. *)
Clashes(x, y) ==
    IF ~Covered(x, y) THEN {<<x, y>>}
    ELSE IF x.t = "map" /\ y.t = "map"
         THEN UNION {Clashes(Get(x, key), Get(y, key)) : key \in Keys(x) \cap Keys(y)}
    ELSE {}

TupleFree(x) == \A n \in Nodes(x) : n.t # "tuple"

(* C12 as stated, on operands that hold no tuple: data_merge fails with    *)
(* the configuration error naming both operand types for every operand     *)
(* combination its three rules do not cover, returns without error for     *)
(* every combination they cover, and returns exactly the override for a    *)
(* null or primitive-scalar base.                                          *)
C12_UnsupportedMergeFails ==
    (pc = "merged" /\ TupleFree(base) /\ TupleFree(override))
       => /\ ~Covered(base, override) => merged = Unsupported(base, override)
          /\ Covered(base, override) => ~IsError(merged)
          /\ Primitive(base) => merged = override

(* C12, amended: data_merge fails with the configuration error naming both *)
(* operand types for every operand combination its three rules do not      *)
(* cover; two mappings fail as well, with the error of the first shared    *)
(* key (at any depth) whose two values no rule covers; every other call    *)
(* returns without error, a null or primitive-scalar base yielding exactly *)
(* the override and a sequence base the sequence extended by the override. *)
C12_UnsupportedMergePropagates ==
    pc = "merged"
       => /\ ~Covered(base, override) => merged = Unsupported(base, override)
          /\ IsError(merged) <=> ~Mergeable(base, override)
          /\ IsError(merged)
                => \E c \in Clashes(base, override) : merged = Unsupported(c[1], c[2])
          /\ Primitive(base) => merged = override
          /\ base.t = "list"
                => merged = List(base.v \o (IF override.t = "list" THEN override.v
                                            ELSE <<override>>))

(* Two mappings whose shared key holds a mapping in the base and a number  *)
(* in the override: the merge of the two values has failed.                *)
C12_Witness ==
    /\ pc = "merged"
    /\ base = Map(<< <<"k", Map(<< <<"n", Integer(1)>> >>)>> >>)
    /\ override = Map(<< <<"k", Integer(1)>> >>)
    /\ merged = Unsupported(Map(<< <<"n", Integer(1)>> >>), Integer(1))

(* Merging a mapping into a sequence is the second rule: it is appended. *)
MappingIntoSequenceAppends ==
    (pc = "merged" /\ base.t = "list" /\ override.t = "map")
       => merged = List(Append(base.v, override))

---------------------------------------------------------------------------
(* The variables of the template that the working copy does not bind. *)
Unresolved == MissingIn(tmpl, ext_mappings)

(* In the loop: as many retries as variables bound so far, each bound to   *)
(* the empty string in the copy, the caller's entries kept as they were.   *)
RetriesBounded ==
    pc # "substitute"
       => /\ retries <= Cardinality(MissingIn(tmpl, mapping))
          /\ retries = Cardinality(MissingIn(tmpl, mapping) \ Unresolved)
          /\ DOMAIN ext_mappings = DOMAIN mapping \cup (MissingIn(tmpl, mapping) \ Unresolved)
          /\ \A n \in DOMAIN ext_mappings :
                ext_mappings[n] = IF n \in DOMAIN mapping THEN mapping[n] ELSE <<>>

(* A retry binds one unresolved variable to the empty string in the copy   *)
(* and the unresolved variables become strictly fewer; the caller's        *)
(* mapping is written by no step.                                          *)
RetryShrinks ==
    /\ mapping' = mapping
    /\ retries' # retries
          => /\ retries' = retries + 1
             /\ \E n \in Unresolved :
                   /\ ext_mappings' = (n :> <<>>) @@ ext_mappings
                   /\ Unresolved' = Unresolved \ {n}
             /\ Unresolved' # Unresolved

(* C13: the retry loop of OptionalTemplate.substitute terminates, with the *)
(* text for every well-formed template: each retry binds one unresolved    *)
(* variable to the empty string in a private copy of the mapping, the      *)
(* unresolved variables strictly shrink, the retries are at most the       *)
(* distinct template variables the mapping lacks, and the caller's mapping *)
(* is never modified.                                                      *)
C13_RetryLoopTerminates ==
    /\ []RetriesBounded
    /\ [][RetryShrinks]_vars
    /\ <>(pc = "returned" \/ (pc = "raised" /\ Malformed(tmpl)))

(* A call that returned after as many retries as the bound allows: both    *)
(* variables of the template were missing.                                 *)
C13_Witness ==
    /\ pc = "returned"
    /\ Cardinality(MissingIn(tmpl, mapping)) = 2
    /\ retries = 2
    /\ mapping = EmptyMapping

====
